---- MODULE Spec2Model ----
(***************************************************************************)
(* The Stack Overflow Quick Search extension (src/extension.js): the       *)
(* stackOverflowSearch.search command handler, the views it writes into    *)
(* its webview panel, and escapeHtml.                                      *)
(*                                                                         *)
(* A JavaScript string is a tuple of one-character strings, so that trim,  *)
(* escaping and concatenation are computed character by character.  The    *)
(* three HTML templates keep the elements that enclose an interpolation    *)
(* and the <title>; their style sheets and footers, which hold no          *)
(* interpolation, are left out.                                            *)
(***************************************************************************)
EXTENDS Integers, Sequences, FiniteSets, TLC

(* ------------------------------ bounds -------------------------------- *)

\* Number of times the command is invoked in one behaviour.
MaxInvocations == 2

\* Longest input string of the escapeHtml check.
MaxLen == 3

\* Number of times the extension is activated in one behaviour.
MaxActivations == 3

(* -------------------------- JavaScript values -------------------------- *)

Undefined == [t |-> "undefined"]

Null == [t |-> "null"]

Num(n) == [t |-> "number", n |-> n]

Str(s) == [t |-> "string", s |-> s]

Bool(b) == [t |-> "boolean", b |-> b]

Arr(a) == [t |-> "array", a |-> a]

Obj(f) == [t |-> "object", f |-> f]

\* v is null or undefined: reading a property of it throws a TypeError.
Nullish(v) == v.t \in {"null", "undefined"}

\* ToBoolean, as applied by !x and by x ? a : b.
Truthy(v) ==
    CASE v.t = "undefined" -> FALSE
      [] v.t = "null" -> FALSE
      [] v.t = "number" -> v.n # 0
      [] v.t = "string" -> v.s # <<>>
      [] v.t = "boolean" -> v.b
      [] OTHER -> TRUE

\* v.name for a value that is not nullish (own data properties and length).
Prop(v, name) ==
    CASE v.t = "object" -> IF name \in DOMAIN v.f THEN v.f[name] ELSE Undefined
      [] v.t = "array" -> IF name = "length" THEN Num(Len(v.a)) ELSE Undefined
      [] v.t = "string" -> IF name = "length" THEN Num(Len(v.s)) ELSE Undefined
      [] OTHER -> Undefined

DigitChars == <<"0", "1", "2", "3", "4", "5", "6", "7", "8", "9">>

RECURSIVE Digits(_)
Digits(n) ==
    IF n < 10 THEN <<DigitChars[n + 1]>>
    ELSE Digits(n \div 10) \o <<DigitChars[(n % 10) + 1]>>

RECURSIVE ToStr(_)
RECURSIVE Join(_)

\* String(v), also what a template literal and URLSearchParams apply.
ToStr(v) ==
    CASE v.t = "string" -> v.s
      [] v.t = "number" -> IF v.n < 0 THEN <<"-">> \o Digits(-v.n) ELSE Digits(v.n)
      [] v.t = "boolean" -> IF v.b THEN <<"t", "r", "u", "e">> ELSE <<"f", "a", "l", "s", "e">>
      [] v.t = "null" -> <<"n", "u", "l", "l">>
      [] v.t = "undefined" -> <<"u", "n", "d", "e", "f", "i", "n", "e", "d">>
      [] v.t = "array" -> Join(v.a)
      [] OTHER -> <<"[", "o", "b", "j", "e", "c", "t", " ", "O", "b", "j", "e", "c", "t", "]">>

\* Array.prototype.join(","): null and undefined elements give the empty string.
Join(a) ==
    IF a = <<>> THEN <<>>
    ELSE (IF Nullish(a[1]) THEN <<>> ELSE ToStr(a[1]))
         \o (IF Len(a) = 1 THEN <<>> ELSE <<",">> \o Join(Tail(a)))

(* ------------------------------- trim ---------------------------------- *)

WhiteSpace == {" ", "\t", "\n"}

RECURSIVE TrimStart(_)
TrimStart(s) ==
    IF s # <<>> /\ Head(s) \in WhiteSpace THEN TrimStart(Tail(s)) ELSE s

RECURSIVE TrimEnd(_)
TrimEnd(s) ==
    IF s # <<>> /\ s[Len(s)] \in WhiteSpace THEN TrimEnd(SubSeq(s, 1, Len(s) - 1)) ELSE s

\* A trim that leaves the whitespace at the end.
TrimStartOnly(s) == TrimStart(s)

\* String.prototype.trim
Trim(s) == TrimEnd(TrimStart(s))

(* ---------------------------- escapeHtml ------------------------------- *)

\* The map of escapeHtml, applied to each character the pattern matches.
EscapeChar(c) ==
    CASE c = "&" -> <<"&", "a", "m", "p", ";">>
      [] c = "<" -> <<"&", "l", "t", ";">>
      [] c = ">" -> <<"&", "g", "t", ";">>
      [] c = "\"" -> <<"&", "q", "u", "o", "t", ";">>
      [] c = "'" -> <<"&", "#", "0", "3", "9", ";">>
      [] OTHER -> <<c>>

\* s.replace(/[&<>"']/g, (m) => map[m]): every character that matches is
\* replaced, the others are kept (computed by halves).
ReplaceAll(s) ==
    LET replaced[t \in Seq(STRING)] ==
            IF t = <<>> THEN <<>>
            ELSE IF Len(t) = 1 THEN EscapeChar(t[1])
            ELSE replaced[SubSeq(t, 1, Len(t) \div 2)]
                 \o replaced[SubSeq(t, Len(t) \div 2 + 1, Len(t))]
    IN  replaced[s]

escapeHtml(text) ==
    IF Nullish(text) THEN <<>> ELSE ReplaceAll(ToStr(text))

(* ------------------------------- views --------------------------------- *)

getLoadingView == <<"<", "t", "i", "t", "l", "e", ">", "L", "o", "a", "d", "i", "n", "g", ".", ".",
       ".", "<", "/", "t", "i", "t", "l", "e", ">", "<", "d", "i", "v", ">", "S",
       "e", "a", "r", "c", "h", "i", "n", "g", " ", "S", "t", "a", "c", "k", " ",
       "O", "v", "e", "r", "f", "l", "o", "w", ".", ".", ".", "<", "/", "d", "i",
       "v", ">">>

ErrorHead == <<"<", "t", "i", "t", "l", "e", ">", "E", "r", "r", "o", "r", "<", "/", "t", "i",
       "t", "l", "e", ">", "<", "p", ">">>

ErrorTail == <<"<", "/", "p", ">", "<", "d", "i", "v", " ", "c", "l", "a", "s", "s", "=", "\"",
       "h", "e", "l", "p", "-", "t", "e", "x", "t", "\"", ">">>

\* message is a JavaScript string.
getErrorView(message) ==
    LET safeMessage == escapeHtml(Str(message))
    IN  ErrorHead \o safeMessage \o ErrorTail

ResultsHead == <<"<", "t", "i", "t", "l", "e", ">", "S", "t", "a", "c", "k", " ", "O", "v", "e",
       "r", "f", "l", "o", "w", " ", "R", "e", "s", "u", "l", "t", "s", "<", "/",
       "t", "i", "t", "l", "e", ">", "S", "h", "o", "w", "i", "n", "g", " ", "t",
       "o", "p", " ">>

RowHead == <<"<", "d", "i", "v", " ", "c", "l", "a", "s", "s", "=", "\"", "q", "u", "e", "s",
       "t", "i", "o", "n", "\"", ">">>

TagHead == <<"<", "s", "p", "a", "n", " ", "c", "l", "a", "s", "s", "=", "\"", "t", "a", "g",
       "\"", ">">>

RECURSIVE TagsHtml(_)
TagsHtml(tags) ==
    IF tags = <<>> THEN <<>>
    ELSE TagHead \o escapeHtml(tags[1]) \o <<"<", "/", "s", "p", "a", "n", ">">> \o TagsHtml(Tail(tags))

\* A row whose title is interpolated as it came.
QuestionHtmlRawTitle(item) ==
    LET safeLink == escapeHtml(Prop(item, "link"))
        safeScore == escapeHtml(Prop(item, "score"))
        safeAnswerCount == escapeHtml(Prop(item, "answer_count"))
        safeViewCount == escapeHtml(Prop(item, "view_count"))
        tagsHtml == IF Truthy(Prop(item, "tags")) THEN TagsHtml(Prop(item, "tags").a) ELSE <<>>
        answerClass == IF Truthy(Prop(item, "is_answered")) THEN <<"a", "n", "s", "w", "e", "r", "e", "d">> ELSE <<"u", "n", "a", "n", "s", "w", "e", "r", "e", "d">>
    IN  RowHead \o <<"<", "s", "t", "r", "o", "n", "g", ">">> \o safeScore \o <<"<", "/", "s", "t", "r", "o", "n", "g", ">", " ", "v", "o", "t", "e", "s", "<",
       "d", "i", "v", " ", "c", "l", "a", "s", "s", "=", "\"", "s", "t", "a", "t",
       " ">>
        \o answerClass \o <<"\"", ">", "<", "s", "t", "r", "o", "n", "g", ">">> \o safeAnswerCount \o <<"<", "/", "s", "t", "r", "o", "n", "g", ">", " ", "a", "n", "s", "w", "e", "r",
       "s", "<", "s", "t", "r", "o", "n", "g", ">">>
        \o safeViewCount \o <<"<", "/", "s", "t", "r", "o", "n", "g", ">", " ", "v", "i", "e", "w", "s", "<",
       "h", "3", ">", "<", "a", " ", "h", "r", "e", "f", "=", "\"">> \o safeLink
        \o <<"\"", " ", "t", "a", "r", "g", "e", "t", "=", "\"", "_", "b", "l", "a", "n", "k",
       "\"", ">">> \o ToStr(Prop(item, "title")) \o <<"<", "/", "a", ">", "<", "/", "h", "3", ">", "<", "d", "i", "v", " ", "c", "l",
       "a", "s", "s", "=", "\"", "t", "a", "g", "s", "\"", ">">>
        \o tagsHtml \o <<"<", "/", "d", "i", "v", ">", "<", "/", "d", "i", "v", ">">>

\* The callback of items.map: one row of the results page.
QuestionHtml(item) ==
    LET safeTitle == escapeHtml(Prop(item, "title"))
        safeLink == escapeHtml(Prop(item, "link"))
        safeScore == escapeHtml(Prop(item, "score"))
        safeAnswerCount == escapeHtml(Prop(item, "answer_count"))
        safeViewCount == escapeHtml(Prop(item, "view_count"))
        tagsHtml == IF Truthy(Prop(item, "tags")) THEN TagsHtml(Prop(item, "tags").a) ELSE <<>>
        answerClass == IF Truthy(Prop(item, "is_answered")) THEN <<"a", "n", "s", "w", "e", "r", "e", "d">> ELSE <<"u", "n", "a", "n", "s", "w", "e", "r", "e", "d">>
    IN  RowHead \o <<"<", "s", "t", "r", "o", "n", "g", ">">> \o safeScore \o <<"<", "/", "s", "t", "r", "o", "n", "g", ">", " ", "v", "o", "t", "e", "s", "<",
       "d", "i", "v", " ", "c", "l", "a", "s", "s", "=", "\"", "s", "t", "a", "t",
       " ">>
        \o answerClass \o <<"\"", ">", "<", "s", "t", "r", "o", "n", "g", ">">> \o safeAnswerCount \o <<"<", "/", "s", "t", "r", "o", "n", "g", ">", " ", "a", "n", "s", "w", "e", "r",
       "s", "<", "s", "t", "r", "o", "n", "g", ">">>
        \o safeViewCount \o <<"<", "/", "s", "t", "r", "o", "n", "g", ">", " ", "v", "i", "e", "w", "s", "<",
       "h", "3", ">", "<", "a", " ", "h", "r", "e", "f", "=", "\"">> \o safeLink
        \o <<"\"", " ", "t", "a", "r", "g", "e", "t", "=", "\"", "_", "b", "l", "a", "n", "k",
       "\"", ">">> \o safeTitle \o <<"<", "/", "a", ">", "<", "/", "h", "3", ">", "<", "d", "i", "v", " ", "c", "l",
       "a", "s", "s", "=", "\"", "t", "a", "g", "s", "\"", ">">>
        \o tagsHtml \o <<"<", "/", "d", "i", "v", ">", "<", "/", "d", "i", "v", ">">>

RECURSIVE QuestionsHtml(_)
QuestionsHtml(a) ==
    IF a = <<>> THEN <<>> ELSE QuestionHtml(a[1]) \o QuestionsHtml(Tail(a))

\* The callback of items.map throws a TypeError: the item is null, or its tags
\* are truthy and no array (item.tags.map is not a function).
ItemThrows(item) ==
    \/ Nullish(item)
    \/ Truthy(Prop(item, "tags")) /\ Prop(item, "tags").t # "array"

\* getResultsView(items, query) throws: items.map is not a function, or the
\* callback throws for some item.
ResultsViewThrows(items) ==
    \/ items.t # "array"
    \/ \E k \in 1..Len(items.a) : ItemThrows(items.a[k])

\* The message of the TypeError getResultsView throws (the first one raised).
ResultsViewError(items) ==
    IF items.t # "array" THEN <<"i", "t", "e", "m", "s", ".", "m", "a", "p", " ", "i", "s", " ", "n", "o", "t",
       " ", "a", " ", "f", "u", "n", "c", "t", "i", "o", "n">>
    ELSE LET k == CHOOSE j \in 1..Len(items.a) :
                      ItemThrows(items.a[j]) /\ \A h \in 1..(j - 1) : ~ItemThrows(items.a[h])
         IN  IF Nullish(items.a[k]) THEN <<"C", "a", "n", "n", "o", "t", " ", "r", "e", "a", "d", " ", "p", "r", "o", "p",
       "e", "r", "t", "i", "e", "s", " ", "o", "f", " ", "n", "u", "l", "l", " ",
       "(", "r", "e", "a", "d", "i", "n", "g", " ", "'", "t", "i", "t", "l", "e",
       "'", ")">>
             ELSE <<"i", "t", "e", "m", ".", "t", "a", "g", "s", ".", "m", "a", "p", " ", "i", "s",
       " ", "n", "o", "t", " ", "a", " ", "f", "u", "n", "c", "t", "i", "o", "n">>

\* A results page of the first PageSize items only.
getResultsViewCapped(items, query) ==
    LET shown == SubSeq(items.a, 1, IF Len(items.a) < 10 THEN Len(items.a) ELSE 10)
        questionsHtml == QuestionsHtml(shown)
        safeQuery == escapeHtml(Str(query))
    IN  ResultsHead \o ToStr(Num(Len(shown))) \o <<" ", "r", "e", "s", "u", "l", "t", "s", " ", "f", "o", "r", ":", " ", "<", "s",
       "t", "r", "o", "n", "g", ">", "\"">>
        \o safeQuery \o <<"\"", "<", "/", "s", "t", "r", "o", "n", "g", ">">> \o questionsHtml

\* items is an array no item of which throws; query is a JavaScript string.
getResultsView(items, query) ==
    LET questionsHtml == QuestionsHtml(items.a)
        safeQuery == escapeHtml(Str(query))
    IN  ResultsHead \o ToStr(Prop(items, "length")) \o <<" ", "r", "e", "s", "u", "l", "t", "s", " ", "f", "o", "r", ":", " ", "<", "s",
       "t", "r", "o", "n", "g", ">", "\"">>
        \o safeQuery \o <<"\"", "<", "/", "s", "t", "r", "o", "n", "g", ">">> \o questionsHtml

(* ------------------------ the response handling ------------------------ *)

\* The catch block: the error view of an exception with this message.
FailedToFetch(message) == getErrorView(<<"F", "a", "i", "l", "e", "d", " ", "t", "o", " ", "f", "e", "t", "c", "h", " ",
       "r", "e", "s", "u", "l", "t", "s", ":", " ">> \o message)

\* response.ok
Ok(response) == response.status \in 200..299

\* The message of the Error thrown for a response that is not ok.
HttpError(response) ==
    <<"H", "T", "T", "P", " ">> \o ToStr(Num(response.status)) \o <<":", " ">> \o response.statusText

\* The message of the FetchError with which response.json() rejects (node-fetch
\* puts the request URL and the parser's reason after these words).
InvalidJson == <<"i", "n", "v", "a", "l", "i", "d", " ", "j", "s", "o", "n", " ", "r", "e", "s",
       "p", "o", "n", "s", "e", " ", "b", "o", "d", "y">>

\* A handler that looks at the items before it looks at error_message.
HandleDataItemsFirst(data, selection) ==
    IF Nullish(data)
    THEN FailedToFetch(<<"C", "a", "n", "n", "o", "t", " ", "r", "e", "a", "d", " ", "p", "r", "o", "p",
       "e", "r", "t", "i", "e", "s", " ", "o", "f", " ", "n", "u", "l", "l", " ",
       "(", "r", "e", "a", "d", "i", "n", "g", " ", "'", "e", "r", "r", "o", "r",
       "_", "m", "e", "s", "s", "a", "g", "e", "'", ")">>)
    ELSE LET items == Prop(data, "items")
         IN  IF Truthy(items) /\ Prop(items, "length") # Num(0) /\ ~ResultsViewThrows(items)
             THEN getResultsView(items, selection)
             ELSE IF Truthy(Prop(data, "error_message"))
             THEN getErrorView(<<"A", "P", "I", " ", "E", "r", "r", "o", "r", ":", " ">> \o ToStr(Prop(data, "error_message"))
                               \o <<".", " ", "P", "l", "e", "a", "s", "e", " ", "c", "h", "e", "c", "k", " ", "y",
       "o", "u", "r", " ", "A", "P", "I", " ", "k", "e", "y", ".">>)
             ELSE getErrorView(<<"N", "o", " ", "r", "e", "s", "u", "l", "t", "s", " ", "f", "o", "u", "n", "d",
       " ", "f", "o", "r", " ", "\"">> \o selection \o <<"\"">>)

\* The handler from the parsed payload on: the document it writes to the panel.
HandleData(data, selection) ==
    IF Nullish(data)
    THEN FailedToFetch(<<"C", "a", "n", "n", "o", "t", " ", "r", "e", "a", "d", " ", "p", "r", "o", "p",
       "e", "r", "t", "i", "e", "s", " ", "o", "f", " ", "n", "u", "l", "l", " ",
       "(", "r", "e", "a", "d", "i", "n", "g", " ", "'", "e", "r", "r", "o", "r",
       "_", "m", "e", "s", "s", "a", "g", "e", "'", ")">>)
    ELSE IF Truthy(Prop(data, "error_message"))
    THEN getErrorView(<<"A", "P", "I", " ", "E", "r", "r", "o", "r", ":", " ">> \o ToStr(Prop(data, "error_message"))
                      \o <<".", " ", "P", "l", "e", "a", "s", "e", " ", "c", "h", "e", "c", "k", " ", "y",
       "o", "u", "r", " ", "A", "P", "I", " ", "k", "e", "y", ".">>)
    ELSE LET items == Prop(data, "items")
         IN  IF ~Truthy(items) \/ Prop(items, "length") = Num(0)
             THEN getErrorView(<<"N", "o", " ", "r", "e", "s", "u", "l", "t", "s", " ", "f", "o", "u", "n", "d",
       " ", "f", "o", "r", " ", "\"">> \o selection \o <<"\"">>)
             ELSE IF ResultsViewThrows(items)
                  THEN FailedToFetch(ResultsViewError(items))
                  ELSE getResultsView(items, selection)

\* A handler whose catch block leaves the panel alone when the body is not JSON.
SettledViewKeepsLoading(outcome, selection) ==
    IF outcome.rejected THEN FailedToFetch(outcome.message)
    ELSE IF ~Ok(outcome.response) THEN FailedToFetch(HttpError(outcome.response))
    ELSE IF ~outcome.response.valid THEN getLoadingView
    ELSE HandleData(outcome.response.data, selection)

\* The document the handler writes once the HTTP call has settled.  An outcome
\* is a rejection of fetch with a message, or a response with a status, a
\* status text and a body that is valid JSON (data) or not.
SettledView(outcome, selection) ==
    IF outcome.rejected THEN FailedToFetch(outcome.message)
    ELSE IF ~Ok(outcome.response) THEN FailedToFetch(HttpError(outcome.response))
    ELSE IF ~outcome.response.valid THEN FailedToFetch(InvalidJson)
    ELSE HandleData(outcome.response.data, selection)

(* ------------------------------ the request ---------------------------- *)

PageSize == 10

TitleLimit == 30

\* The title of the panel: the first 30 characters of the query.
PanelTitle(selection) ==
    LET shortTitle == SubSeq(selection, 1, IF Len(selection) < TitleLimit THEN Len(selection) ELSE TitleLimit)
        panelTitle == IF Len(selection) > TitleLimit THEN shortTitle \o <<".", ".", ".">> ELSE shortTitle
    IN  <<"S", "O", ":", " ">> \o panelTitle

\* A key selection that takes the first credential of a list.
GetApiKeyFirstOfList(cfg) ==
    IF cfg.t = "array" /\ cfg.a # <<>> THEN cfg.a[1] ELSE cfg

\* configuration.get('apiKey'): the stored value as it is.
GetApiKey(cfg) == cfg

\* new URLSearchParams({...}): every value converted to a string.
SearchParams(selection, apiKey) ==
    [q |-> selection, site |-> <<"s", "t", "a", "c", "k", "o", "v", "e", "r", "f", "l", "o", "w">>, key |-> ToStr(apiKey),
     pagesize |-> ToStr(Num(PageSize)), order |-> <<"d", "e", "s", "c">>, sort |-> <<"r", "e", "l", "e", "v", "a", "n", "c", "e">>]

(* ------------------------- the environment's inputs -------------------- *)

Key1 == <<"K", "1">>

Key2 == <<"K", "2">>

\* Values the stackOverflowSearch.apiKey setting may hold when the extension
\* starts: unset, the empty string, one key, and (written by hand into the
\* settings file, which the host hands back as it is) a list of keys.
Configs ==
    {Undefined, Str(<<>>), Str(Key1), Arr(<<Str(Key1), Str(Key2)>>), Arr(<<>>)}

\* The active editor's selected text, as editor.document.getText returns it.
Selections == {<<>>, <<" ", "\t">>, <<" ", "a", "\n">>, <<"b", " ", "c">>}

Editors ==
    {[active |-> FALSE, text |-> <<>>]} \cup {[active |-> TRUE, text |-> s] : s \in Selections}

\* What the user does with the missing-key prompt (nothing: it was dismissed).
Actions == {"", "Add API Key", "Open Settings", "Learn More"}

\* What the input box returns: undefined when cancelled, else the text typed.
InputBoxResults == {Undefined, Str(<<>>), Str(<<" ">>), Str(<<" ", "N", "9", " ">>)}

Item(title) ==
    Obj([title |-> Str(title), link |-> Str(<<"h", "t", "t", "p", "s", ":", "/", "/", "s", "o", "/", "q", "/", "1">>), score |-> Num(12),
         answer_count |-> Num(2), view_count |-> Num(340),
         tags |-> Arr(<<Str(<<"j", "s">>)>>), is_answered |-> Bool(TRUE)])

\* No response: the call has not settled, or fetch rejected.
NoResponse == [status |-> 0, statusText |-> <<>>, valid |-> FALSE, data |-> Undefined]

\* The call has not settled.
Pending == [rejected |-> FALSE, message |-> <<>>, response |-> NoResponse]

Response(status, statusText, data) ==
    [status |-> status, statusText |-> statusText, valid |-> TRUE, data |-> data]

Resolved(response) == [rejected |-> FALSE, message |-> <<>>, response |-> response]

Rejected(message) == [rejected |-> TRUE, message |-> message, response |-> NoResponse]

\* A response whose body is no JSON text.
NotJson(status, statusText) ==
    [status |-> status, statusText |-> statusText, valid |-> FALSE, data |-> Undefined]

\* How the HTTP call of one invocation may settle.
Outcomes ==
    { Rejected(<<"r", "e", "q", "u", "e", "s", "t", " ", "f", "a", "i", "l", "e", "d", ",", " ",
       "r", "e", "a", "s", "o", "n", ":", " ", "E", "C", "O", "N", "N", "R", "E",
       "F", "U", "S", "E", "D">>),
      Resolved(Response(500, <<"I", "n", "t", "e", "r", "n", "a", "l", " ", "S", "e", "r", "v", "e", "r", " ",
       "E", "r", "r", "o", "r">>, Undefined)),
      Resolved(NotJson(200, <<"O", "K">>)),
      Resolved(Response(200, <<"O", "K">>, Obj([error_message |-> Str(<<"k", "e", "y", " ", "e", "x", "p", "i", "r", "e", "d">>)]))),
      Resolved(Response(200, <<"O", "K">>, Obj([items |-> Arr(<<>>)]))),
      Resolved(Response(200, <<"O", "K">>, Obj([items |-> Arr(<<Item(<<"T", "1">>), Item(<<"<", "i", ">">>)>>)]))),
      Resolved(Response(200, <<"O", "K">>, Obj([items |-> Arr(<<Item(<<"T", "1">>), Null>>)]))) }

(* -------------------------------- state -------------------------------- *)

VARIABLES
    config,        \* the value of the stackOverflowSearch.apiKey setting
    invocations,   \* the invocations of the command so far, in the order they began
    running,       \* the invocation whose code is on the stack (0: none)
    panels,        \* the webview panels created so far: title and webview.html
    requests,      \* the HTTP requests issued so far: the invocation and the parameters
    input,         \* the argument of the function checked on its own (ViewSpec)
    output,        \* its result, once applied
    hasShownApiKeyWelcome,  \* globalState: the flag of the welcome popup
    welcome,       \* the run of showWelcomePopup of the present session
    activations    \* the number of times the extension was activated

vars == <<config, invocations, running, panels, requests, input, output,
          hasShownApiKeyWelcome, welcome, activations>>

\* The variables of the welcome popup, which the search handler leaves alone.
session == <<hasShownApiKeyWelcome, welcome, activations>>

\* showWelcomePopup has not been called.
NotActivated == [pc |-> "idle", selection |-> "", newKey |-> Undefined, shown |-> <<>>]

\* The variables of the checks of single functions, which the handler leaves alone.
pure == <<input, output>>

NoInput == [f |-> "none", text |-> Undefined, outcome |-> Pending, selection |-> <<>>]

NotApplied == [applied |-> FALSE, value |-> <<>>]

Init ==
    /\ config \in Configs
    /\ invocations = <<>>
    /\ running = 0
    /\ panels = <<>>
    /\ requests = <<>>
    /\ input = NoInput
    /\ output = NotApplied
    /\ hasShownApiKeyWelcome = Undefined
    /\ welcome = NotActivated
    /\ activations = 0

\* The handler's local variables and the place it has reached (pc), with the
\* notices it has shown and the host commands it has run.
NewInvocation(pc, editor, selection, shown) ==
    [pc |-> pc, editor |-> editor.active, rawSelection |-> editor.text,
     selection |-> selection, apiKey |-> Undefined, panel |-> 0, outcome |-> Pending,
     newKey |-> Undefined, shown |-> shown]

\* A check that takes only an unset setting for a missing key.
MissingKeyUnsetOnly(apiKey) == apiKey.t = "undefined"

\* if (!apiKey)
MissingKey(apiKey) == ~Truthy(apiKey)

\* The panel created last, whoever created it.
LatestPanel(i) == Len(panels)

\* The panel an invocation writes to: its own const panel.
Panel(i) == invocations[i].panel

\* panel.webview.html = html, by invocation i.
WriteHtml(i, html) == [panels EXCEPT ![Panel(i)].html = html]

\* A handler that calls fetch a second time.
FetchCallsRetry(i, params) == <<[by |-> i, params |-> params], [by |-> i, params |-> params]>>

\* await fetch(apiUrl): the calls of fetch the handler makes.
FetchCalls(i, params) == <<[by |-> i, params |-> params]>>

(* ------------------------------- actions ------------------------------- *)

\* The command is invoked: the editor check, the trim and the selection check.
Invoke ==
    /\ running = 0
    /\ Len(invocations) < MaxInvocations
    /\ \E editor \in Editors :
         LET rawSelection == editor.text
             selection == Trim(rawSelection)
         IN  IF ~editor.active
             THEN /\ invocations' = Append(invocations,
                        NewInvocation("done", editor, <<>>, <<"No editor is active.">>))
                  /\ running' = 0
             ELSE IF ~Truthy(Str(selection))
             THEN /\ invocations' = Append(invocations,
                        NewInvocation("done", editor, selection,
                                      <<"Please select some text to search.">>))
                  /\ running' = 0
             ELSE /\ invocations' = Append(invocations,
                        NewInvocation("QueryExtracted", editor, selection, <<>>))
                  /\ running' = Len(invocations) + 1
    /\ UNCHANGED <<config, panels, requests, pure, session>>

\* The setting is read; without a key the prompt is shown and awaited.
ResolveKey(i) ==
    /\ running = i
    /\ invocations[i].pc = "QueryExtracted"
    /\ LET apiKey == GetApiKey(config)
       IN  IF MissingKey(apiKey)
           THEN /\ invocations' = [invocations EXCEPT
                        ![i].pc = "awaitAction", ![i].apiKey = apiKey,
                        ![i].shown = Append(@, "Stack Overflow API Key is required.")]
                /\ running' = 0
           ELSE /\ invocations' = [invocations EXCEPT
                        ![i].pc = "KeyResolved", ![i].apiKey = apiKey]
                /\ running' = i
    /\ UNCHANGED <<config, panels, requests, pure, session>>

\* vscode.window.createWebviewPanel
CreatePanel(i) ==
    /\ running = i
    /\ invocations[i].pc = "KeyResolved"
    /\ panels' = Append(panels, [title |-> PanelTitle(invocations[i].selection), html |-> <<>>])
    /\ invocations' = [invocations EXCEPT ![i].pc = "PanelCreated", ![i].panel = Len(panels) + 1]
    /\ UNCHANGED <<config, running, requests, pure, session>>

\* A handler that goes on to the request without the loading placeholder.
SkipLoading(i) ==
    /\ running = i
    /\ invocations[i].pc = "PanelCreated"
    /\ invocations' = [invocations EXCEPT ![i].pc = "Loading"]
    /\ UNCHANGED <<config, running, panels, requests, pure, session>>

\* panel.webview.html = getLoadingView()
ShowLoading(i) ==
    /\ running = i
    /\ invocations[i].pc = "PanelCreated"
    /\ panels' = WriteHtml(i, getLoadingView)
    /\ invocations' = [invocations EXCEPT ![i].pc = "Loading"]
    /\ UNCHANGED <<config, running, requests, pure, session>>

\* The URL is built and fetched; the handler awaits the response.
Fetch(i) ==
    /\ running = i
    /\ invocations[i].pc = "Loading"
    /\ requests' = requests \o FetchCalls(i, SearchParams(invocations[i].selection,
                                                           invocations[i].apiKey))
    /\ invocations' = [invocations EXCEPT ![i].pc = "awaitFetch"]
    /\ running' = 0
    /\ UNCHANGED <<config, panels, pure, session>>

\* fetch settles: a rejection or a response that is not ok goes to the catch
\* block, any other response has its body read (response.json() is awaited).
FetchSettles(i) ==
    /\ running = 0
    /\ invocations[i].pc = "awaitFetch"
    /\ \E outcome \in Outcomes :
         IF outcome.rejected \/ ~Ok(outcome.response)
         THEN /\ panels' = WriteHtml(i, SettledView(outcome, invocations[i].selection))
              /\ invocations' = [invocations EXCEPT ![i].pc = "done", ![i].outcome = outcome]
         ELSE /\ invocations' = [invocations EXCEPT
                      ![i].pc = "awaitJson", ![i].outcome = outcome]
              /\ UNCHANGED panels
    /\ UNCHANGED <<config, running, requests, pure, session>>

\* response.json() settles: the payload is handled, or the catch block runs.
JsonSettles(i) ==
    /\ running = 0
    /\ invocations[i].pc = "awaitJson"
    /\ panels' = WriteHtml(i, SettledView(invocations[i].outcome, invocations[i].selection))
    /\ invocations' = [invocations EXCEPT ![i].pc = "done"]
    /\ UNCHANGED <<config, running, requests, pure, session>>

\* The missing-key prompt settles with the button picked, if any.
ChooseAction(i) ==
    /\ running = 0
    /\ invocations[i].pc = "awaitAction"
    /\ \E action \in Actions :
         invocations' = [invocations EXCEPT
             ![i].pc = IF action = "Add API Key" THEN "awaitInput" ELSE "done",
             ![i].shown = CASE action = "Add API Key" -> Append(@, "Enter your Stack Exchange API Key")
                            [] action = "Open Settings" -> Append(@, "workbench.action.openSettings")
                            [] action = "Learn More" -> Append(@, "openExternal")
                            [] OTHER -> @]
    /\ UNCHANGED <<config, running, panels, requests, pure, session>>

\* The input box settles: a key that is not blank is stored, trimmed.
EnterKey(i) ==
    /\ running = 0
    /\ invocations[i].pc = "awaitInput"
    /\ \E newKey \in InputBoxResults :
         invocations' = [invocations EXCEPT
             ![i].pc = IF Truthy(newKey) /\ Truthy(Str(Trim(newKey.s)))
                       THEN "awaitUpdate" ELSE "done",
             ![i].newKey = newKey]
    /\ UNCHANGED <<config, running, panels, requests, pure, session>>

\* A handler that goes on to search with the key it has just stored.
UpdateSettlesThenSearch(i) ==
    /\ running = 0
    /\ invocations[i].pc = "awaitUpdate"
    /\ config' = Str(Trim(invocations[i].newKey.s))
    /\ invocations' = [invocations EXCEPT
           ![i].pc = "KeyResolved",
           ![i].apiKey = Str(Trim(invocations[i].newKey.s)),
           ![i].shown = Append(@, "API Key saved! Please try searching again.")]
    /\ running' = i
    /\ UNCHANGED <<panels, requests, pure, session>>

\* configuration.update settles: the key is stored and the notice shown.
UpdateSettles(i) ==
    /\ running = 0
    /\ invocations[i].pc = "awaitUpdate"
    /\ config' = Str(Trim(invocations[i].newKey.s))
    /\ invocations' = [invocations EXCEPT
           ![i].pc = "done",
           ![i].shown = Append(@, "API Key saved! Please try searching again.")]
    /\ UNCHANGED <<running, panels, requests, pure, session>>

Next ==
    \/ Invoke
    \/ \E i \in 1..Len(invocations) : ResolveKey(i)
    \/ \E i \in 1..Len(invocations) : CreatePanel(i)
    \/ \E i \in 1..Len(invocations) : ShowLoading(i)
    \/ \E i \in 1..Len(invocations) : Fetch(i)
    \/ \E i \in 1..Len(invocations) : FetchSettles(i)
    \/ \E i \in 1..Len(invocations) : JsonSettles(i)
    \/ \E i \in 1..Len(invocations) : ChooseAction(i)
    \/ \E i \in 1..Len(invocations) : EnterKey(i)
    \/ \E i \in 1..Len(invocations) : UpdateSettles(i)

Spec == Init /\ [][Next]_vars

\* The steps of invocation i that wait for nothing the user does: the code up
\* to the first await runs to its end, and the two promises awaited settle.
Continue(i) ==
    /\ i \in 1..Len(invocations)
    /\ \/ ResolveKey(i) \/ CreatePanel(i) \/ ShowLoading(i) \/ Fetch(i)
       \/ FetchSettles(i) \/ JsonSettles(i)

\* The handler with an HTTP call that completes.
FairSpec == Spec /\ \A i \in 1..MaxInvocations : WF_vars(Continue(i))

(* --------------------------- the welcome popup ------------------------- *)

\* What the user does with the welcome popup (nothing: it was dismissed).
WelcomeSelections == {"", "Add API Key", "Learn More", "View on GitHub", "Support Me"}

\* Shortest key, without the whitespace around it, the input box accepts.
MinKeyLength == 10

\* validateInput of the popup's input box: the message shown, or null.
ValidateInput(value) ==
    IF ~Truthy(value) \/ Len(Trim(value.s)) = 0 THEN Str(<<"A", "P", "I", " ", "k", "e", "y", " ", "c", "a", "n", "n", "o", "t", " ", "b",
       "e", " ", "e", "m", "p", "t", "y">>)
    ELSE IF Len(Trim(value.s)) < MinKeyLength
    THEN Str(<<"A", "P", "I", " ", "k", "e", "y", " ", "s", "e", "e", "m", "s", " ", "t", "o",
       "o", " ", "s", "h", "o", "r", "t", ".", " ", "P", "l", "e", "a", "s", "e",
       " ", "c", "h", "e", "c", "k", " ", "a", "n", "d", " ", "t", "r", "y", " ",
       "a", "g", "a", "i", "n", ".">>)
    ELSE Null

\* Texts typed into the popup's input box.
WelcomeTexts ==
    {Str(<<>>), Str(<<" ", " ">>), Str(<<" ", "s", "h", "o", "r", "t", " ">>), Str(<<" ", "A", "B", "C", "D", "E", "1", "2", "3", "4", "5", " ">>), Str(<<"Z", "Y", "X", "W", "V", "9", "8", "7", "6", "5">>)}

\* What the popup's input box returns: undefined when cancelled, else a text
\* that validateInput has no message for.
WelcomeInputBoxResults == {Undefined} \cup {text \in WelcomeTexts : ValidateInput(text) = Null}

\* A popup that counts a dismissal as a choice.
SelectedAlways(selection) == TRUE

\* if (selection): a button was picked.
Selected(selection) == selection # ""

\* The extension is activated, in a new session: showWelcomePopup runs up to
\* its first await.  The session before has ended, with its popup or input
\* box if one was open; no update of the stored state was left in flight.
activate ==
    /\ activations < MaxActivations
    /\ welcome.pc \notin {"awaitFlagUpdate", "awaitKeyUpdate"}
    /\ activations' = activations + 1
    /\ LET apiKey == config
           hasShownWelcome == hasShownApiKeyWelcome
       IN  IF Truthy(apiKey) \/ Truthy(hasShownWelcome)
           THEN welcome' = [NotActivated EXCEPT !.pc = "done"]
           ELSE welcome' = [NotActivated EXCEPT
                    !.pc = "awaitSelection",
                    !.shown = <<"Welcome to Stack Overflow Quick Search!">>]
    /\ UNCHANGED <<config, invocations, running, panels, requests, pure,
                   hasShownApiKeyWelcome>>

\* The popup settles with the button picked, if any: with one the flag is
\* written (and the write awaited), with none the function ends.
WelcomeSelected ==
    /\ welcome.pc = "awaitSelection"
    /\ \E selection \in WelcomeSelections :
         welcome' = [welcome EXCEPT
             !.selection = selection,
             !.pc = IF Selected(selection) THEN "awaitFlagUpdate" ELSE "done"]
    /\ UNCHANGED <<config, invocations, running, panels, requests, pure,
                   hasShownApiKeyWelcome, activations>>

\* globalState.update settles: the flag is stored and the button handled.
FlagUpdateSettles ==
    /\ welcome.pc = "awaitFlagUpdate"
    /\ hasShownApiKeyWelcome' = Bool(TRUE)
    /\ welcome' = [welcome EXCEPT
           !.pc = IF welcome.selection = "Add API Key" THEN "awaitInput" ELSE "done",
           !.shown = CASE welcome.selection = "Add API Key" ->
                              Append(@, "Enter your Stack Exchange API Key")
                       [] welcome.selection \in {"Learn More", "View on GitHub", "Support Me"} ->
                              Append(@, "openExternal")
                       [] OTHER -> @]
    /\ UNCHANGED <<config, invocations, running, panels, requests, pure, activations>>

\* The popup's input box settles: a key that is not blank is stored, trimmed.
WelcomeKeyEntered ==
    /\ welcome.pc = "awaitInput"
    /\ \E newKey \in WelcomeInputBoxResults :
         welcome' = [welcome EXCEPT
             !.newKey = newKey,
             !.pc = IF Truthy(newKey) /\ Truthy(Str(Trim(newKey.s)))
                    THEN "awaitKeyUpdate" ELSE "done"]
    /\ UNCHANGED <<config, invocations, running, panels, requests, pure,
                   hasShownApiKeyWelcome, activations>>

\* configuration.update settles: the key is stored and the notice shown.
WelcomeKeySaved ==
    /\ welcome.pc = "awaitKeyUpdate"
    /\ config' = Str(Trim(welcome.newKey.s))
    /\ welcome' = [welcome EXCEPT
           !.pc = "done",
           !.shown = Append(@, "API Key saved successfully!")]
    /\ UNCHANGED <<invocations, running, panels, requests, pure,
                   hasShownApiKeyWelcome, activations>>

WelcomeNext ==
    \/ activate
    \/ WelcomeSelected
    \/ FlagUpdateSettles
    \/ WelcomeKeyEntered
    \/ WelcomeKeySaved

\* The activations of the extension, one session after the other.
WelcomeSpec == Init /\ [][WelcomeNext]_vars

(* ------------------- the functions checked on their own ----------------- *)

\* Longest list of items in a payload.
MaxItems == 12

Alphabet == {"&", "<", ">", "\"", "'", "a", ";"}

RECURSIVE StringsUpTo(_)
StringsUpTo(n) ==
    IF n = 0 THEN {<<>>}
    ELSE LET S == StringsUpTo(n - 1)
         IN  S \cup {Append(s, c) : s \in S, c \in Alphabet}

\* Arguments of escapeHtml: every string of the alphabet up to MaxLen, and
\* values that are no strings.
EscapeInputs ==
    {Str(s) : s \in StringsUpTo(MaxLen)} \cup {Null, Undefined, Num(0), Num(-7), Num(105), Bool(TRUE)}

\* The k-th item of a payload: its title names its place.
NumberedItem(k) == Item(<<"T">> \o Digits(k))

Items(n) == Arr([k \in 1..n |-> NumberedItem(k)])

\* An item every field of which carries markup.
HostileItem ==
    Obj([title |-> Str(<<"<", "s", "c", "r", "i", "p", "t", ">">>), link |-> Str(<<"\"", ">", "<", "x", ">">>), score |-> Str(<<"<", "1", ">">>),
         answer_count |-> Str(<<"<", "2", ">">>), view_count |-> Str(<<"<", "3", ">">>),
         tags |-> Arr(<<Str(<<"<", "t", ">">>), Null, Str(<<"a", "&", "b">>)>>), is_answered |-> Bool(FALSE)])

\* An item of numbers only, with no tags.
BareItem == Obj([title |-> Num(7), score |-> Num(-1)])

OkData(data) == Resolved(Response(200, <<"O", "K">>, data))

\* How the HTTP call may settle, for the check of the response handling.
ViewOutcomes ==
    Outcomes \cup
    { Rejected(<<"<", "n", "e", "t", ">", " ", "&", " ", "d", "o", "w", "n">>),
      Resolved(Response(404, <<"N", "o", "t", " ", "<", "F", "o", "u", "n", "d", ">">>, Obj([items |-> Items(1)]))),
      Resolved(Response(301, <<"M", "o", "v", "e", "d">>, Obj([error_message |-> Str(<<"m", "o", "v", "e", "d">>)]))),
      Resolved(NotJson(204, <<"N", "o", " ", "C", "o", "n", "t", "e", "n", "t">>)),
      OkData(Null),
      OkData(Num(5)),
      OkData(Arr(<<>>)),
      OkData(Obj([has_more |-> Bool(FALSE)])),
      OkData(Obj([items |-> Null])),
      OkData(Obj([error_message |-> Str(<<"<", "e", ">", " ", "\"", "k", "e", "y", "\"", " ", "e", "x", "p", "i", "r", "e",
       "d">>), items |-> Items(2)])),
      OkData(Obj([error_message |-> Str(<<>>), items |-> Items(2)])),
      OkData(Obj([error_message |-> Null, items |-> Arr(<<>>)])),
      OkData(Obj([error_message |-> Num(502)])),
      OkData(Obj([items |-> Str(<<"a", "b", "c">>)])),
      OkData(Obj([items |-> Obj([length |-> Num(2)])])),
      OkData(Obj([items |-> Arr(<<Item(<<"T", "1">>), Obj([title |-> Str(<<"T", "2">>), tags |-> Str(<<"j", "s">>)])>>)])),
      OkData(Obj([items |-> Arr(<<HostileItem>>)])),
      OkData(Obj([items |-> Arr(<<BareItem, Num(3), HostileItem>>)])),
      OkData(Obj([items |-> Items(1)])),
      OkData(Obj([items |-> Items(PageSize)])),
      OkData(Obj([items |-> Items(MaxItems)])) }

ViewSelections == {<<"b", " ", "c">>, <<"<", "q", ">", " ", "\"", "&", "'">>}

ViewInputs ==
    {[f |-> "escapeHtml", text |-> v, outcome |-> Pending, selection |-> <<>>] : v \in EscapeInputs}
    \cup {[f |-> "search", text |-> Undefined, outcome |-> o, selection |-> s] :
              o \in ViewOutcomes, s \in ViewSelections}

ViewInit ==
    /\ config = Str(Key1)
    /\ invocations = <<>>
    /\ running = 0
    /\ panels = <<>>
    /\ requests = <<>>
    /\ input \in ViewInputs
    /\ output = NotApplied
    /\ hasShownApiKeyWelcome = Undefined
    /\ welcome = NotActivated
    /\ activations = 0

\* escapeHtml is applied to the input.
ApplyEscape ==
    /\ input.f = "escapeHtml"
    /\ ~output.applied
    /\ output' = [applied |-> TRUE, value |-> escapeHtml(input.text)]
    /\ UNCHANGED <<config, invocations, running, panels, requests, input, session>>

\* The handler's code after the HTTP call is applied to the input.
ApplySettled ==
    /\ input.f = "search"
    /\ ~output.applied
    /\ output' = [applied |-> TRUE, value |-> SettledView(input.outcome, input.selection)]
    /\ UNCHANGED <<config, invocations, running, panels, requests, input, session>>

ViewNext == ApplyEscape \/ ApplySettled

ViewSpec == ViewInit /\ [][ViewNext]_vars

(* ================================ claims ================================ *)

\* The credentials a setting holds, in their configured order: the elements of
\* a list, the one key of a string that is not empty, none otherwise.
Pool(cfg) ==
    CASE cfg.t = "array" -> [k \in 1..Len(cfg.a) |-> cfg.a[k].s]
      [] cfg.t = "string" /\ cfg.s # <<>> -> <<cfg.s>>
      [] OTHER -> <<>>

RECURSIVE CommaJoined(_)
\* The credentials of a pool written one after the other, commas between them.
CommaJoined(pool) ==
    IF pool = <<>> THEN <<>>
    ELSE IF Len(pool) = 1 THEN pool[1]
    ELSE pool[1] \o <<",">> \o CommaJoined(Tail(pool))

\* C1, as claimed: with a pool of L credentials the n-th key selection (the
\* key of the n-th request) is credential ((n - 1) mod L) + 1 of the pool, so L
\* selections return each credential once, in order, and the next one wraps.
C1_RoundRobin ==
    LET pool == Pool(config)
    IN  pool # <<>> =>
            \A n \in 1..Len(requests) :
                requests[n].params.key = pool[((n - 1) % Len(pool)) + 1]

\* C1, amended: there is no rotation.  Every key selection returns the whole
\* setting as it is then: the one credential of a single-key setting, and all
\* the credentials of a list at once, joined by commas, at every selection.
C1_WholeSettingEverySelection ==
    [][\A n \in 1..Len(requests') :
           n > Len(requests) => requests'[n].params.key = CommaJoined(Pool(config))]_vars

\* Two selections were made from a pool of two credentials.
C1_TwoSelectionsFromPoolOfTwo ==
    /\ Len(Pool(config)) = 2
    /\ Len(requests) = 2
    /\ requests[1].params.key = requests[2].params.key

Blank(raw) == \A k \in 1..Len(raw) : raw[k] \in {" ", "\t", "\n"}

\* s is raw without its leading and trailing whitespace, and is not empty.
TrimmedFrom(s, raw) ==
    /\ s # <<>>
    /\ ~Blank(<<s[1]>>)
    /\ ~Blank(<<s[Len(s)]>>)
    /\ \E a \in 0..(Len(raw) - Len(s)) :
          /\ SubSeq(raw, a + 1, a + Len(s)) = s
          /\ Blank(SubSeq(raw, 1, a))
          /\ Blank(SubSeq(raw, a + Len(s) + 1, Len(raw)))

RequestsBy(i) == {n \in 1..Len(requests) : requests[n].by = i}

\* C2: an invocation whose selection is empty or only whitespace ends with the
\* notice that no text is selected, with no panel and no HTTP request; for any
\* other selection the query, also the q of the request, is the selection
\* without its leading and trailing whitespace, and is not empty.
C2_BlankSelectionRejected ==
    \A i \in 1..Len(invocations) :
        LET v == invocations[i]
        IN  v.editor =>
                IF Blank(v.rawSelection)
                THEN /\ v.pc = "done"
                     /\ v.shown = <<"Please select some text to search.">>
                     /\ v.panel = 0
                     /\ RequestsBy(i) = {}
                ELSE /\ TrimmedFrom(v.selection, v.rawSelection)
                     /\ \A n \in RequestsBy(i) :
                            TrimmedFrom(requests[n].params.q, v.rawSelection)

\* One invocation was rejected for a selection of whitespace and another sent
\* the trimmed text of a selection that has whitespace on both sides.
C2_BlankRejectedAndTrimmedSent ==
    \E i, j \in 1..Len(invocations) :
        /\ invocations[i].editor
        /\ invocations[i].rawSelection = <<" ", "\t">>
        /\ invocations[j].rawSelection = <<" ", "a", "\n">>
        /\ \E n \in RequestsBy(j) : requests[n].params.q = <<"a">>

\* The invocation has read the setting.
KeyRead(i) ==
    /\ invocations[i].editor
    /\ invocations[i].selection # <<>>
    /\ invocations[i].pc # "QueryExtracted"

\* The invocation has shown the missing-key prompt and has no panel and no
\* request, and is at a place from which none is made.
Aborted(i) ==
    /\ \E k \in 1..Len(invocations[i].shown) :
           invocations[i].shown[k] = "Stack Overflow API Key is required."
    /\ invocations[i].panel = 0
    /\ RequestsBy(i) = {}
    /\ invocations[i].pc \in {"awaitAction", "awaitInput", "awaitUpdate", "done"}

\* C3, as claimed: an invocation that finds no credential (an unset or empty
\* key, or an empty pool) shows the missing-key prompt and never creates a
\* panel, shows the placeholder or issues a request.
C3_NoCredentialAborts ==
    \A i \in 1..Len(invocations) :
        (KeyRead(i) /\ Pool(invocations[i].apiKey) = <<>>) => Aborted(i)

\* C3, amended: an invocation that finds the setting unset or the empty string
\* shows the missing-key prompt and never creates a panel, shows the
\* placeholder or issues a request.
C3_MissingKeyAborts ==
    \A i \in 1..Len(invocations) :
        (KeyRead(i) /\ invocations[i].apiKey \in {Undefined, Str(<<>>)}) => Aborted(i)

\* An invocation that found the empty string as the key has ended.
C3_EmptyKeyInvocationEnded ==
    \E i \in 1..Len(invocations) :
        /\ KeyRead(i)
        /\ invocations[i].apiKey = Str(<<>>)
        /\ invocations[i].pc = "done"

StartsWith(s, p) == Len(s) >= Len(p) /\ SubSeq(s, 1, Len(p)) = p

EndsWith(s, p) == Len(s) >= Len(p) /\ SubSeq(s, Len(s) - Len(p) + 1, Len(s)) = p

\* The five entities and the characters they stand for.
Entities ==
    { <<<<"&", "a", "m", "p", ";">>, "&">>, <<<<"&", "l", "t", ";">>, "<">>, <<<<"&", "g", "t", ";">>, ">">>, <<<<"&", "q", "u", "o", "t", ";">>, "\"">>,
      <<<<"&", "#", "0", "3", "9", ";">>, "'">> }

\* pat is written in s from place p on.
Match(s, p, pat) == p + Len(pat) - 1 <= Len(s) /\ SubSeq(s, p, p + Len(pat) - 1) = pat

\* An entity is written in s from place p on.
EntityAt(s, p) == \E e \in Entities : Match(s, p, e[1])

\* Place p of s is inside an entity that starts before it.
InsideEntity(s, p) ==
    \E q \in (IF p > 6 THEN p - 6 ELSE 1)..(p - 1) :
        \E e \in Entities : Match(s, q, e[1]) /\ q + Len(e[1]) > p

\* The text a browser shows for s: each entity read back as its character.
Unescape(s) ==
    LET starts == SelectSeq([p \in 1..Len(s) |-> p], LAMBDA p : ~InsideEntity(s, p))
    IN  [k \in 1..Len(starts) |->
            IF EntityAt(s, starts[k])
            THEN (CHOOSE e \in Entities : Match(s, starts[k], e[1]))[2]
            ELSE s[starts[k]]]

\* d is the error document.
IsErrorDoc(d) ==
    /\ StartsWith(d, <<"<", "t", "i", "t", "l", "e", ">", "E", "r", "r", "o", "r", "<", "/", "t", "i",
       "t", "l", "e", ">", "<", "p", ">">>)
    /\ EndsWith(d, <<"<", "/", "p", ">", "<", "d", "i", "v", " ", "c", "l", "a", "s", "s", "=", "\"",
       "h", "e", "l", "p", "-", "t", "e", "x", "t", "\"", ">">>)
    /\ Len(d) >= 50

\* The message the error document d displays.
ShownMessage(d) == Unescape(SubSeq(d, 24, Len(d) - 27))

\* d is the results document.
IsResultsDoc(d) == StartsWith(d, <<"<", "t", "i", "t", "l", "e", ">", "S", "t", "a", "c", "k", " ", "O", "v", "e",
       "r", "f", "l", "o", "w", " ", "R", "e", "s", "u", "l", "t", "s", "<", "/",
       "t", "i", "t", "l", "e", ">">>)

Transport(d) == IsErrorDoc(d) /\ StartsWith(ShownMessage(d), <<"F", "a", "i", "l", "e", "d", " ", "t", "o", " ", "f", "e", "t", "c", "h", " ",
       "r", "e", "s", "u", "l", "t", "s", ":", " ">>)

ApiRejected(d, message) ==
    /\ IsErrorDoc(d)
    /\ ShownMessage(d) = <<"A", "P", "I", " ", "E", "r", "r", "o", "r", ":", " ">> \o message \o <<".", " ", "P", "l", "e", "a", "s", "e", " ", "c", "h", "e", "c", "k", " ", "y",
       "o", "u", "r", " ", "A", "P", "I", " ", "k", "e", "y", ".">>

NoResults(d, query) ==
    IsErrorDoc(d) /\ ShownMessage(d) = <<"N", "o", " ", "r", "e", "s", "u", "l", "t", "s", " ", "f", "o", "u", "n", "d",
       " ", "f", "o", "r", " ", "\"">> \o query \o <<"\"">>

\* The number of the four kinds that d is of.
KindsOf(d) ==
    (IF Transport(d) THEN 1 ELSE 0)
    + (IF IsErrorDoc(d) /\ StartsWith(ShownMessage(d), <<"A", "P", "I", " ", "E", "r", "r", "o", "r", ":", " ">>) THEN 1 ELSE 0)
    + (IF IsErrorDoc(d) /\ StartsWith(ShownMessage(d), <<"N", "o", " ", "r", "e", "s", "u", "l", "t", "s", " ", "f", "o", "u", "n", "d",
       " ", "f", "o", "r", " ">>) THEN 1 ELSE 0)
    + (IF IsResultsDoc(d) THEN 1 ELSE 0)

\* The payload is an object with this field, and the field is not null.
Carries(r, field) ==
    /\ r.valid
    /\ r.data.t = "object"
    /\ field \in DOMAIN r.data.f
    /\ r.data.f[field] # Null

\* C4, as claimed: a rejection or a status that is not 2xx gives Transport;
\* otherwise a payload carrying error_message gives ApiRejected with that
\* message; otherwise missing or zero-length items give NoResults naming the
\* query; otherwise, with at least one item, the result page is rendered.
C4_FourKinds ==
    (input.f = "search" /\ output.applied) =>
        LET r == input.outcome.response
            d == output.value
        IN  /\ KindsOf(d) = 1
            /\ IF input.outcome.rejected \/ r.status \notin 200..299
               THEN Transport(d)
               ELSE IF Carries(r, "error_message")
               THEN ApiRejected(d, ToStr(r.data.f.error_message))
               ELSE IF ~Carries(r, "items") \/ r.data.f.items = Arr(<<>>)
               THEN NoResults(d, input.selection)
               ELSE IsResultsDoc(d)

\* Every element of the list of items is an object or a primitive, and its
\* tags, if it has any, are a list: the rows can be built.
RowsCanBeBuilt(items) ==
    /\ items.t = "array"
    /\ \A k \in 1..Len(items.a) :
          /\ items.a[k] # Null
          /\ (items.a[k].t = "object" /\ "tags" \in DOMAIN items.a[k].f)
                => items.a[k].f.tags.t \in {"array", "null"}

\* C4, amended: a rejection, a status that is not 2xx, a body that is no JSON
\* or a null payload gives Transport; otherwise a payload with a truthy (not
\* empty) error_message gives ApiRejected with that message, even if it has
\* items; otherwise items that are missing, null or of length 0 give NoResults
\* naming the query; otherwise the result page is rendered if the rows can be
\* built, and Transport is shown if building them throws.
C4_FourKindsWithExceptions ==
    (input.f = "search" /\ output.applied) =>
        LET r == input.outcome.response
            d == output.value
        IN  /\ KindsOf(d) = 1
            /\ IF input.outcome.rejected \/ r.status \notin 200..299 \/ ~r.valid \/ r.data = Null
               THEN Transport(d)
               ELSE IF Carries(r, "error_message") /\ r.data.f.error_message \notin {Str(<<>>), Num(0), Bool(FALSE)}
               THEN ApiRejected(d, ToStr(r.data.f.error_message))
               ELSE IF ~Carries(r, "items") \/ r.data.f.items = Arr(<<>>)
                       \/ Prop(r.data.f.items, "length") = Num(0)
               THEN NoResults(d, input.selection)
               ELSE IF RowsCanBeBuilt(r.data.f.items)
               THEN IsResultsDoc(d)
               ELSE Transport(d)

\* The handler was applied to a payload that has error_message and items, and
\* the error document shows that message.
C4_ApiErrorWithItemsShown ==
    /\ output.applied
    /\ input.outcome = OkData(Obj([error_message |-> Str(<<"<", "e", ">", " ", "\"", "k", "e", "y", "\"", " ", "e", "x", "p", "i", "r", "e",
       "d">>), items |-> Items(2)]))
    /\ ApiRejected(output.value, <<"<", "e", ">", " ", "\"", "k", "e", "y", "\"", " ", "e", "x", "p", "i", "r", "e",
       "d">>)

\* The places of d from which pat is written, in ascending order.
Occurrences(d, pat) == SelectSeq([p \in 1..Len(d) |-> p], LAMBDA p : Match(d, p, pat))

\* The titles the rows of the results document d display, from the first row on.
ShownTitles(d) ==
    LET opens == Occurrences(d, <<"\"", " ", "t", "a", "r", "g", "e", "t", "=", "\"", "_", "b", "l", "a", "n", "k",
       "\"", ">">>)
        closes == Occurrences(d, <<"<", "/", "a", ">", "<", "/", "h", "3", ">">>)
    IN  [j \in 1..Len(opens) |-> Unescape(SubSeq(d, opens[j] + 18, closes[j] - 1))]

\* The title of an item as text (none: the empty text).
TitleText(item) ==
    IF item.t = "object" /\ "title" \in DOMAIN item.f /\ item.f.title # Null
    THEN ToStr(item.f.title) ELSE <<>>

\* C5, as claimed: the result page of a payload of k >= 1 items holds the
\* first min(10, k) items of the payload, in their order (10 of 12).
C5_FirstTenItems ==
    (input.f = "search" /\ output.applied /\ IsResultsDoc(output.value)) =>
        LET items == input.outcome.response.data.f.items.a
            k == Len(items)
            titles == ShownTitles(output.value)
        IN  /\ Len(Occurrences(output.value, RowHead))
                   = (IF k < PageSize THEN k ELSE PageSize)
            /\ Len(titles) = (IF k < PageSize THEN k ELSE PageSize)
            /\ \A j \in 1..Len(titles) : titles[j] = TitleText(items[j])

\* C5, amended: the result page of a payload of k >= 1 items holds all k
\* items of the payload, in their order (12 of 12): the handler cuts nothing.
C5_EveryItemInOrder ==
    (input.f = "search" /\ output.applied /\ IsResultsDoc(output.value)) =>
        LET items == input.outcome.response.data.f.items.a
            titles == ShownTitles(output.value)
        IN  /\ Len(Occurrences(output.value, RowHead)) = Len(items)
            /\ Len(titles) = Len(items)
            /\ \A j \in 1..Len(titles) : titles[j] = TitleText(items[j])

\* The results page of a payload of more than 10 items was built.
C5_LongPayloadRendered ==
    /\ output.applied
    /\ input.outcome = OkData(Obj([items |-> Items(MaxItems)]))
    /\ MaxItems > PageSize
    /\ IsResultsDoc(output.value)

(* ---------------------------------------------------------------------- *)

Contains(d, pat) == \E p \in 1..Len(d) : Match(d, p, pat)

\* The text of a field (none: the empty text).
FieldText(v) == IF Nullish(v) THEN <<>> ELSE ToStr(v)

\* The texts of an item that reach the results document.
ItemTexts(item) ==
    IF item.t # "object" THEN {}
    ELSE {FieldText(item.f[n]) :
              n \in DOMAIN item.f \cap {"title", "link", "score", "answer_count", "view_count"}}
         \cup (IF "tags" \in DOMAIN item.f /\ item.f.tags.t = "array"
               THEN {FieldText(item.f.tags.a[k]) : k \in 1..Len(item.f.tags.a)} ELSE {})

\* The remote-sourced and user-controlled texts of an input of the handler:
\* the query, the messages of the failure, and the fields of the payload.
InputTexts(in) ==
    LET r == in.outcome.response
        data == r.data
    IN  {in.selection, in.outcome.message, r.statusText}
        \cup (IF data.t = "object" /\ "error_message" \in DOMAIN data.f
              THEN {FieldText(data.f.error_message)} ELSE {})
        \cup (IF data.t = "object" /\ "items" \in DOMAIN data.f /\ data.f.items.t = "array"
              THEN UNION {ItemTexts(data.f.items.a[k]) : k \in 1..Len(data.f.items.a)}
              ELSE {})

\* The text has a reserved character, and is long enough not to be a part of
\* the templates.
Markup(text) ==
    Len(text) >= 3 /\ \E p \in 1..Len(text) : text[p] \in {"&", "<", ">", "\"", "'"}

\* C8: the output of escapeHtml has none of < > " ' and each & in it starts
\* one of the five entities; and no text of the query, the failure or the
\* payload that has markup in it appears as it came in the document the
\* handler writes.
C8_Escaped ==
    /\ (input.f = "escapeHtml" /\ output.applied) =>
           \A p \in 1..Len(output.value) :
               /\ output.value[p] \notin {"<", ">", "\"", "'"}
               /\ output.value[p] = "&" => EntityAt(output.value, p)
    /\ (input.f = "search" /\ output.applied) =>
           \A text \in InputTexts(input) : Markup(text) => ~Contains(output.value, text)

EscapedScriptTitle == <<"&", "l", "t", ";", "s", "c", "r", "i", "p", "t", "&", "g", "t", ";", "<", "/",
       "a", ">">>

\* The results page of an item whose title is <script> was built, and shows
\* the title escaped.
C8_ScriptTitleRendered ==
    /\ output.applied
    /\ input.outcome = OkData(Obj([items |-> Arr(<<HostileItem>>)]))
    /\ Contains(output.value, EscapedScriptTitle)

(* ---------------------------------------------------------------------- *)

\* The document invocation i's panel shows (none: the empty text).
Shown(i) == IF invocations[i].panel = 0 THEN <<>> ELSE panels[invocations[i].panel].html

\* The invocation has a query that is not empty, and a credential.
HasQueryAndKey(i) ==
    /\ invocations[i].editor
    /\ invocations[i].selection # <<>>
    /\ \/ invocations[i].apiKey.t = "string" /\ invocations[i].apiKey.s # <<>>
       \/ invocations[i].apiKey.t = "array" /\ invocations[i].apiKey.a # <<>>

\* C6: an invocation issues at most one HTTP request, and has issued exactly
\* one by its end when it has a query that is not empty and a credential;
\* once the call has an outcome the invocation issues no request again.
C6_OneRequestNoRetry ==
    /\ [](\A i \in 1..Len(invocations) :
            /\ Cardinality(RequestsBy(i)) <= 1
            /\ (invocations[i].pc = "done" /\ HasQueryAndKey(i)) =>
                   Cardinality(RequestsBy(i)) = 1)
    /\ [][\A i \in 1..Len(invocations) :
            invocations[i].outcome # Pending =>
                Cardinality({n \in 1..Len(requests') : requests'[n].by = i})
                    = Cardinality(RequestsBy(i))]_vars

\* An invocation has ended with a transport error in its panel, after its one
\* request.
C6_TransportErrorAfterOneRequest ==
    \E i \in 1..Len(invocations) :
        /\ invocations[i].pc = "done"
        /\ invocations[i].outcome # Pending
        /\ Cardinality(RequestsBy(i)) = 1
        /\ Transport(Shown(i))

(* ---------------------------------------------------------------------- *)

\* Invocation i's panel shows the loading placeholder.
LoadingShown(i) ==
    /\ i \in 1..Len(invocations)
    /\ invocations[i].panel # 0
    /\ Shown(i) = getLoadingView

\* Invocation i's panel shows the results document or an error document.
Replaced(i) ==
    /\ i \in 1..Len(invocations)
    /\ invocations[i].panel # 0
    /\ IsResultsDoc(Shown(i)) \/ IsErrorDoc(Shown(i))

\* C7: when the HTTP call completes, an invocation whose panel shows the loading
\* placeholder comes to show the results document or an error document in that
\* panel, whatever the outcome (a body that is not JSON and items no row can be
\* built from included); no invocation ends with its panel showing anything else.
C7_LoadingReplaced ==
    /\ \A i \in 1..MaxInvocations : LoadingShown(i) ~> Replaced(i)
    /\ [](\A i \in 1..Len(invocations) :
            (invocations[i].pc = "done" /\ invocations[i].panel # 0) => Replaced(i))

\* An invocation whose response body was not JSON has ended with an error
\* document in its panel.
C7_InvalidJsonShownAsError ==
    \E i \in 1..Len(invocations) :
        /\ invocations[i].pc = "done"
        /\ invocations[i].outcome # Pending
        /\ ~invocations[i].outcome.rejected
        /\ Ok(invocations[i].outcome.response)
        /\ ~invocations[i].outcome.response.valid
        /\ IsErrorDoc(Shown(i))

(* ---------------------------------------------------------------------- *)

\* The invocations that created panel p.
Creators(p) == {i \in 1..Len(invocations) : invocations[i].panel = p}

\* The document the panel of invocation i is to show at the place i has reached.
OwnDocument(i) ==
    CASE invocations[i].pc = "PanelCreated" -> <<>>
      [] invocations[i].pc \in {"Loading", "awaitFetch", "awaitJson"} -> getLoadingView
      [] OTHER -> SettledView(invocations[i].outcome, invocations[i].selection)

\* C9: under every interleaving of the invocations, each panel was created by
\* one invocation, carries the title of that invocation's query and shows the
\* document of that invocation alone (nothing, then the loading placeholder,
\* then the result or error document of its own query and response); a step
\* that changes a panel is a step of the invocation that created it.
C9_OwnPanelOnly ==
    /\ [](/\ \A p \in 1..Len(panels) : Cardinality(Creators(p)) = 1
          /\ \A i \in 1..Len(invocations) :
                invocations[i].panel # 0 =>
                    /\ invocations[i].panel \in 1..Len(panels)
                    /\ panels[invocations[i].panel].title = PanelTitle(invocations[i].selection)
                    /\ panels[invocations[i].panel].html = OwnDocument(i))
    /\ [][\A p \in 1..Len(panels) :
            panels'[p] # panels[p] =>
                \E i \in 1..Len(invocations) :
                    /\ invocations[i].panel = p
                    /\ invocations'[i].pc # invocations[i].pc]_vars

\* A second invocation has ended, with a document in its panel, while the
\* first still awaits its HTTP response behind the loading placeholder; the
\* two have different queries.
C9_SecondEndedWhileFirstAwaits ==
    /\ Len(invocations) = 2
    /\ invocations[1].pc = "awaitFetch"
    /\ invocations[2].pc = "done"
    /\ invocations[1].panel # 0 /\ invocations[2].panel # 0
    /\ invocations[1].selection # invocations[2].selection
    /\ Shown(1) = getLoadingView
    /\ IsResultsDoc(Shown(2))

(* ---------------------------------------------------------------------- *)

\* The stage invocation i has reached in the state <<invs, ps>>.  Aborted is
\* the end of an invocation without a query or without a key.
Stage(invs, ps, i) ==
    IF i > Len(invs) THEN "Idle"
    ELSE LET v == invs[i]
         IN  CASE v.pc = "QueryExtracted" -> "QueryExtracted"
               [] v.pc \in {"KeyResolved", "PanelCreated"} -> "KeyResolved"
               [] v.pc \in {"Loading", "awaitFetch", "awaitJson"} -> "Loading"
               [] v.pc = "done" /\ v.panel # 0 ->
                      IF IsResultsDoc(ps[v.panel].html) /\ ~IsErrorDoc(ps[v.panel].html)
                      THEN "Rendered"
                      ELSE IF IsErrorDoc(ps[v.panel].html) /\ ~IsResultsDoc(ps[v.panel].html)
                      THEN "ErrorRendered"
                      ELSE "Neither"
               [] OTHER -> "Aborted"

\* The order of the stages; an invocation without a query or without a key
\* leaves it for Aborted.
StageOrder ==
    { <<"Idle", "QueryExtracted">>, <<"QueryExtracted", "KeyResolved">>,
      <<"KeyResolved", "Loading">>, <<"Loading", "Rendered">>,
      <<"Loading", "ErrorRendered">>,
      <<"Idle", "Aborted">>, <<"QueryExtracted", "Aborted">> }

FoundNoKey(i) ==
    \E k \in 1..Len(invocations[i].shown) :
        invocations[i].shown[k] = "Stack Overflow API Key is required."

\* The text is a string with a character that is no whitespace.
NotBlank(text) ==
    text.t = "string" /\ \E k \in 1..Len(text.s) : text.s[k] \notin WhiteSpace

\* C12: an invocation that finds no key never searches, whatever is done with
\* its prompt: it has no panel and no HTTP request, also after a key was
\* entered and saved; and the setting is written only by an invocation that
\* found no key and was given a text that is not blank, which is stored
\* without its leading and trailing whitespace; after a blank or cancelled
\* input, or another button, the invocation ends with the setting as it was.
C12_NoSearchAfterMissingKey ==
    /\ [](\A i \in 1..Len(invocations) :
            FoundNoKey(i) =>
                /\ invocations[i].panel = 0
                /\ RequestsBy(i) = {}
                /\ invocations[i].pc \in {"awaitAction", "awaitInput", "awaitUpdate", "done"})
    /\ [][/\ config' # config =>
               \E i \in 1..Len(invocations) :
                   /\ FoundNoKey(i)
                   /\ invocations[i].pc = "awaitUpdate" /\ invocations'[i].pc = "done"
                   /\ NotBlank(invocations[i].newKey)
                   /\ config'.t = "string"
                   /\ TrimmedFrom(config'.s, invocations[i].newKey.s)
          /\ \A i \in 1..Len(invocations) :
               /\ (invocations[i].pc = "awaitInput" /\ invocations'[i].pc = "awaitUpdate") =>
                      NotBlank(invocations'[i].newKey)
               /\ (invocations[i].pc = "awaitInput" /\ invocations'[i].pc = "done") =>
                      ~NotBlank(invocations'[i].newKey) /\ config' = config
               /\ (invocations[i].pc = "awaitAction" /\ invocations'[i].pc = "done") =>
                      config' = config]_vars

\* An invocation that found no key has ended after a key was entered and
\* saved, trimmed, with no panel and no request.
C12_KeySavedNoSearch ==
    \E i \in 1..Len(invocations) :
        /\ FoundNoKey(i)
        /\ invocations[i].pc = "done"
        /\ invocations[i].newKey = Str(<<" ", "N", "9", " ">>)
        /\ config = Str(<<"N", "9">>)
        /\ invocations[i].panel = 0
        /\ RequestsBy(i) = {}

(* ---------------------------------------------------------------------- *)

\* No API key is configured: the setting is unset or the empty string.
NoKeyConfigured == config \in {Undefined, Str(<<>>)}

\* The welcome popup was shown in the session of w.
PopupShown(w) == w.shown # <<>> /\ w.shown[1] = "Welcome to Stack Overflow Quick Search!"

\* C11: an activation shows the welcome popup exactly when no key is
\* configured and the flag hasShownApiKeyWelcome is unset; the flag is only
\* ever set to true, by a popup in which a button was picked, and stays set;
\* a popup dismissed without a choice leaves the flag unset, so that the next
\* activation without a key shows the popup again, and once a button was
\* picked and the flag stored no activation shows it.
C11_WelcomeUntilChoice ==
    /\ [](/\ hasShownApiKeyWelcome \in {Undefined, Bool(TRUE)}
          /\ (PopupShown(welcome) /\ welcome.pc = "done" /\ welcome.selection = "") =>
                 hasShownApiKeyWelcome = Undefined
          /\ (welcome.selection # "" /\ welcome.pc # "awaitFlagUpdate") =>
                 hasShownApiKeyWelcome = Bool(TRUE))
    /\ [][/\ activations' # activations =>
               /\ PopupShown(welcome') <=> (NoKeyConfigured /\ hasShownApiKeyWelcome = Undefined)
               /\ hasShownApiKeyWelcome' = hasShownApiKeyWelcome
          /\ activations' = activations => (PopupShown(welcome') <=> PopupShown(welcome))
          /\ hasShownApiKeyWelcome' # hasShownApiKeyWelcome =>
               /\ hasShownApiKeyWelcome' = Bool(TRUE)
               /\ PopupShown(welcome)
               /\ welcome.selection \in {"Add API Key", "Learn More", "View on GitHub", "Support Me"}
          /\ (welcome.pc = "awaitSelection" /\ welcome'.pc = "done"
                 /\ activations' = activations) =>
               /\ welcome'.selection = ""
               /\ hasShownApiKeyWelcome' = Undefined]_vars

\* After a button was picked in an earlier session, an activation without a
\* key has shown no popup.
C11_NoPopupAfterChoice ==
    /\ activations >= 2
    /\ NoKeyConfigured
    /\ hasShownApiKeyWelcome = Bool(TRUE)
    /\ welcome.pc = "done"
    /\ ~PopupShown(welcome)

====
